---- MODULE Spec2Model ----
(***************************************************************************)
(* Fractal LSB steganography (package stego): FractalStego.Embed,          *)
(* FractalStego.Extract, generateFractalPattern, bytesToBits, bitsToBytes. *)
(*                                                                         *)
(* An image is a record [w, h, pix]: a pixel grid with origin (0,0), as    *)
(* image.NewRGBA(image.Rect(0,0,w,h)) and image.Decode produce it; pix is  *)
(* the row-major sequence of color.RGBA values, pix[y*w + x + 1] being the *)
(* pixel At(x, y).                                                         *)
(*                                                                         *)
(* Complex numbers are exact fractions [re, im, den] = re/den + i*im/den.  *)
(* For the image sizes, iteration counts and thresholds drawn below the    *)
(* float64 arithmetic of the source takes every escape decision as the     *)
(* exact arithmetic does: |z|^2 never equals threshold^2 and never lies    *)
(* within 1/144 of it, far above the rounding error of float64.            *)
(***************************************************************************)
EXTENDS Integers, Sequences, FiniteSets, TLC

Nil == "nil"

\* a Go pointer or slice that may be nil: the empty sequence is nil, << v >>
\* refers to v
NilRef == << >>
Ref(v) == << v >>
Deref(p) == p[1]

\* no image allocated yet
NoImage == [w |-> 0, h |-> 0, pix |-> << >>]

(***************************************************************************)
(* Bounds and input sets                                                   *)
(***************************************************************************)
MaxData == 1                       \* longest payload, in bytes
MaxCodecBytes == 2                 \* longest input of bytesToBits, in bytes
MaxCodecBits == 9                  \* longest input of bitsToBytes, in bits

ByteChoices == {1, 164, 255}       \* payload byte values
DimChoices == {<<8, 4>>, <<8, 6>>, <<8, 8>>}      \* <<width, height>>
TypeChoices == {"Mandelbrot", "Julia", "julia", ""}
IterationChoices == {0, 1, 2}
ThresholdChoices == {<<1, 2>>, <<1, 1>>, <<2, 1>>} \* <<num, den>>: 0.5, 1.0, 2.0
CoverKinds == {"even", "odd", "mixed"}
CodecByteChoices == {0, 1, 128, 164, 255}          \* byte values of the codec inputs

(***************************************************************************)
(* Integer helpers                                                         *)
(***************************************************************************)
RECURSIVE Pow2(_)
Pow2(n) == IF n = 0 THEN 1 ELSE 2 * Pow2(n - 1)

RECURSIVE GCD(_, _)
GCD(a, b) == IF b = 0 THEN a ELSE GCD(b, a % b)

LCM(a, b) == (a * b) \div GCD(a, b)

\* bit k (0 = least significant) of b
BitAt(b, k) == (b \div Pow2(k)) % 2

\* b | (v << k) for a one-bit v
OrBit(b, k, v) == IF v = 1 /\ BitAt(b, k) = 0 THEN b + Pow2(k) ELSE b

(***************************************************************************)
(* bytesToBits, bitsToBytes                                                *)
(***************************************************************************)
\* mutant: least-significant bit first, bits[i*8+j] = (b >> j) & 1
bytesToBitsLSBFirst(d) ==
    [k \in 1..(Len(d) * 8) |-> BitAt(d[((k - 1) \div 8) + 1], (k - 1) % 8)]

\* bits[i*8+j] = (b >> (7 - j)) & 1
bytesToBits(d) ==
    [k \in 1..(Len(d) * 8) |-> BitAt(d[((k - 1) \div 8) + 1], 7 - ((k - 1) % 8))]

RECURSIVE bitsToBytesFrom(_, _, _)
bitsToBytesFrom(bits, i, bytes) ==
    IF i >= Len(bits) THEN bytes
    ELSE bitsToBytesFrom(bits, i + 1,
            IF bits[i + 1] = 1
            THEN [bytes EXCEPT ![(i \div 8) + 1] = OrBit(@, 7 - (i % 8), 1)]
            ELSE bytes)

\* mutant: packs least-significant bit first
RECURSIVE bitsToBytesFromLSB(_, _, _)
bitsToBytesFromLSB(bits, i, bytes) ==
    IF i >= Len(bits) THEN bytes
    ELSE bitsToBytesFromLSB(bits, i + 1,
            IF bits[i + 1] = 1
            THEN [bytes EXCEPT ![(i \div 8) + 1] = OrBit(@, i % 8, 1)]
            ELSE bytes)

bitsToBytesLSBFirst(bits) ==
    bitsToBytesFromLSB(bits, 0, [k \in 1..((Len(bits) + 7) \div 8) |-> 0])

bitsToBytes(bits) ==
    bitsToBytesFrom(bits, 0, [k \in 1..((Len(bits) + 7) \div 8) |-> 0])

(***************************************************************************)
(* encoding/binary BigEndian.PutUint32 / Uint32.  A uint32 is the pair     *)
(* [hi, lo] of its 16-bit halves.                                          *)
(***************************************************************************)
PutUint32(n) ==
    << (n \div 16777216) % 256, (n \div 65536) % 256, (n \div 256) % 256, n % 256 >>

Uint32(b) == [hi |-> b[1] * 256 + b[2], lo |-> b[3] * 256 + b[4]]

U32IsZero(u) == u.hi = 0 /\ u.lo = 0

\* u > uint32(n), for 0 <= n < 2^31
U32Greater(u, n) ==
    \/ u.hi > n \div 65536
    \/ u.hi = n \div 65536 /\ u.lo > n % 65536

\* the value of u, for u <= n < 2^31
U32Value(u) == u.hi * 65536 + u.lo

(***************************************************************************)
(* Complex arithmetic of generateFractalPattern                            *)
(***************************************************************************)
Zero == [re |-> 0, im |-> 0, den |-> 1]

JuliaC == [re |-> -200, im |-> 39, den |-> 250]      \* complex(-0.8, 0.156)

\* nx = x/width*3.5 - 2.5, ny = y/height*2.0 - 1.0, c = complex(nx, ny)
PixelC(x, y, width, height) ==
    LET L == LCM(2 * width, height)
    IN [re  |-> (7 * x - 5 * width) * (L \div (2 * width)),
        im  |-> (2 * y - height) * (L \div height),
        den |-> L]

\* z*z + c
SquareAdd(z, c) ==
    LET d2 == z.den * z.den
        nd == IF d2 % c.den = 0 THEN d2 ELSE d2 * c.den
        zs == nd \div d2
        cs == nd \div c.den
    IN [re  |-> (z.re * z.re - z.im * z.im) * zs + c.re * cs,
        im  |-> (2 * z.re * z.im) * zs + c.im * cs,
        den |-> nd]

\* cmplx.Abs(z) > threshold, threshold = t[1]/t[2] > 0:
\* (re^2 + im^2) * t[2]^2 > t[1]^2 * den^2, with one division by den
AbsGreater(z, t) ==
    LET X == (z.re * z.re + z.im * z.im) * (t[2] * t[2])
        Y == (t[1] * t[1]) * z.den
    IN \/ X \div z.den > Y
       \/ X \div z.den = Y /\ X % z.den # 0

\* mutant: the type is compared without regard to case
RECURSIVE IterLoopAnyCase(_, _, _, _)
IterLoopAnyCase(iter, z, c, params) ==
    IF iter < params.Iterations
    THEN LET z1 == IF params.Type \in {"Julia", "julia"} THEN SquareAdd(z, JuliaC)
                   ELSE SquareAdd(z, c)
         IN IF AbsGreater(z1, params.Threshold) THEN iter
            ELSE IterLoopAnyCase(iter + 1, z1, c, params)
    ELSE iter

\* mutant: the Julia branch adds the pixel's c, as the Mandelbrot branch does
RECURSIVE IterLoopJuliaPixel(_, _, _, _)
IterLoopJuliaPixel(iter, z, c, params) ==
    IF iter < params.Iterations
    THEN LET z1 == SquareAdd(z, c)
         IN IF AbsGreater(z1, params.Threshold) THEN iter
            ELSE IterLoopJuliaPixel(iter + 1, z1, c, params)
    ELSE iter

\* the value of iter when the loop of lines 133-142 ends
RECURSIVE IterLoop(_, _, _, _)
IterLoop(iter, z, c, params) ==
    IF iter < params.Iterations
    THEN LET z1 == IF params.Type = "Julia" THEN SquareAdd(z, JuliaC)
                   ELSE SquareAdd(z, c)
         IN IF AbsGreater(z1, params.Threshold) THEN iter
            ELSE IterLoop(iter + 1, z1, c, params)
    ELSE iter

\* mutant: iterations = 0 special-cased to an empty mask
generateFractalPatternNoDegenerate(width, height, params) ==
    [k \in 1..(width * height) |->
        LET x == (k - 1) % width
            y == (k - 1) \div width
        IN /\ params.Iterations > 0
           /\ IterLoop(0, Zero, PixelC(x, y, width, height), params) = params.Iterations]

generateFractalPattern(width, height, params) ==
    [k \in 1..(width * height) |->
        LET x == (k - 1) % width
            y == (k - 1) \div width
        IN IterLoop(0, Zero, PixelC(x, y, width, height), params) = params.Iterations]

(***************************************************************************)
(* Images                                                                  *)
(***************************************************************************)
\* color.RGBA of pixel i (row-major, 0-based) of a test cover; the kinds
\* differ in the blue least-significant bits: all 0, all 1, or 1 exactly at
\* the odd indexes from 31 on
CoverPixel(kind, i) ==
    [R |-> (7 * i + 3) % 256,
     G |-> (13 * i + 5) % 256,
     B |-> 2 * ((5 * i + 9) % 128) +
           (CASE kind = "even" -> 0
              [] kind = "odd" -> 1
              [] OTHER -> IF i >= 31 /\ i % 2 = 1 THEN 1 ELSE 0),
     A |-> 255]

MakeCover(dim, kind) ==
    [w |-> dim[1], h |-> dim[2],
     pix |-> [k \in 1..(dim[1] * dim[2]) |-> CoverPixel(kind, k - 1)]]

\* img.RGBAAt(x, y) / color.RGBAModel.Convert(img.At(x, y))
RGBAAt(img, x, y) == img.pix[y * img.w + x + 1]

\* img.SetRGBA(x, y, c)
SetRGBA(img, x, y, c) == [img EXCEPT !.pix[y * img.w + x + 1] = c]

\* mutant: c.B = bit, the upper 7 bits are lost
WithLSBClobber(b, bit) == bit

\* mutant: c.B ^= bit, the bit is added to the LSB instead of replacing it
WithLSBFlip(b, bit) == (b - (b % 2)) + (((b % 2) + bit) % 2)

\* (c.B & 0xFE) | bit
WithLSB(b, bit) == (b - (b % 2)) + bit

RECURSIVE SeqsUpTo(_, _)
SeqsUpTo(S, n) ==
    IF n = 0 THEN {<<>>}
    ELSE LET prev == SeqsUpTo(S, n - 1)
         IN prev \cup {Append(q, b) : q \in {p \in prev : Len(p) = n - 1}, b \in S}

Payloads == SeqsUpTo(ByteChoices, MaxData)

ParamChoices ==
    [Type : TypeChoices, Iterations : IterationChoices, Threshold : ThresholdChoices]

\* stego.Config; EmbeddingRate is never read by Embed or Extract
Configs == [FractalParams : {NilRef} \cup {Ref(p) : p \in ParamChoices}]

ErrParams == "fractal parameters are required"
ErrSmall == "image too small to embed data"
ErrLength == "invalid data length extracted"

(***************************************************************************)
(* State                                                                   *)
(***************************************************************************)
VARIABLES
    cover,          \* the image passed to Embed
    data,           \* the payload passed to Embed
    config,         \* the Config passed to Embed and to Extract
    epc,            \* Embed: "call", "loop", "ret"
    stego,          \* Embed: the image allocated at line 36, NoImage before
    epattern,       \* Embed: pattern
    allBits,        \* Embed: allBits
    bitPos,         \* Embed: bitPos
    ex, ey,         \* Embed: loop variables x, y
    eret,           \* Embed: returned [img, err]; img names the image or is Nil
    xpc,            \* Extract: "idle", "header", "data", "ret"
    xsrc,           \* Extract: the image passed, "cover" or "stego"
    xpattern,       \* Extract: pattern
    lengthBytes,    \* Extract: lengthBytes
    extractedBits,  \* Extract: extractedBits
    dataBits,       \* Extract: dataBits
    skippedTimes,   \* Extract: skippedTimes
    xx, xy,         \* Extract: loop variables x, y
    xret,           \* Extract: returned [bytes, err]; bytes is NilRef or Ref(slice)
    patternCalls,   \* number of generateFractalPattern calls so far
    pixelReads,     \* number of pixel reads so far
    pixelWrites,    \* number of pixel writes so far
    round,          \* number of the Embed call under way, from 1
    cpc,            \* bit codec: "off", "input", "encoded", "decoded", "packed"
    cdata,          \* bit codec: the bytes given to bytesToBits
    cbits,          \* bit codec: the bits given to bitsToBytes
    cbytes,         \* bit codec: the bytes bitsToBytes returned
    apc,            \* front end: "off", "form", "embed", "extract", "error"
    selected,       \* front end: a.algorithm.Selected
    factoryRet,     \* front end: what stego.Factory returned, [alg, err]
    form            \* front end: the fractal parameter widgets and whether
                    \* the paths, files and numbers of the form are usable

evars == << epc, stego, epattern, allBits, bitPos, ex, ey, eret >>
xvars == << xpc, xsrc, xpattern, lengthBytes, extractedBits, dataBits,
            skippedTimes, xx, xy, xret >>
args == << cover, data, config >>
counters == << patternCalls, pixelReads, pixelWrites >>
aux == << round, cpc, cdata, cbits, cbytes, apc, selected, factoryRet, form >>

\* the form of a front end that is not running
FormOff == [fractalType |-> << >>, fractalIterations |-> 0,
            fractalThreshold |-> << 0, 1 >>, usable |-> FALSE]
vars == << args, evars, xvars, counters, aux >>

\* the bit codec and the front end take no part
AuxOff ==
    /\ round = 1
    /\ cpc = "off"
    /\ cdata = << >>
    /\ cbits = << >>
    /\ cbytes = << >>
    /\ apc = "off"
    /\ selected = << >>
    /\ factoryRet = [alg |-> Nil, err |-> Nil]
    /\ form = FormOff

Init ==
    /\ cover \in {MakeCover(d, k) : d \in DimChoices, k \in CoverKinds}
    /\ data \in Payloads
    /\ config \in Configs
    /\ epc = "call"
    /\ stego = NoImage
    /\ epattern = << >>
    /\ allBits = << >>
    /\ bitPos = 0
    /\ ex = 0
    /\ ey = 0
    /\ eret = [img |-> Nil, err |-> Nil]
    /\ xpc = "idle"
    /\ xsrc = Nil
    /\ xpattern = << >>
    /\ lengthBytes = << >>
    /\ extractedBits = 0
    /\ dataBits = << >>
    /\ skippedTimes = 0
    /\ xx = 0
    /\ xy = 0
    /\ xret = [bytes |-> NilRef, err |-> Nil]
    /\ patternCalls = 0
    /\ pixelReads = 0
    /\ pixelWrites = 0
    /\ AuxOff

(***************************************************************************)
(* FractalStego.Embed                                                      *)
(***************************************************************************)
\* lines 31-32: the capacity test
EmbedTooSmall(width, height, d) == width * height < 32 + Len(d) * 8

\* mutant: the parameters are tested after the cover has been copied
EmbedNoParamsLate ==
    /\ epc = "call"
    /\ config.FractalParams = NilRef
    /\ epc' = "ret"
    /\ eret' = [img |-> Nil, err |-> ErrParams]
    /\ stego' = [w |-> cover.w, h |-> cover.h,
                 pix |-> [k \in 1..(cover.w * cover.h) |-> cover.pix[k]]]
    /\ pixelReads' = pixelReads + cover.w * cover.h
    /\ pixelWrites' = pixelWrites + cover.w * cover.h
    /\ UNCHANGED << args, epattern, allBits, bitPos, ex, ey, xvars, patternCalls >>
    /\ UNCHANGED aux

\* lines 22-25: missing parameters
EmbedNoParams ==
    /\ epc = "call"
    /\ config.FractalParams = NilRef
    /\ epc' = "ret"
    /\ eret' = [img |-> Nil, err |-> ErrParams]
    /\ UNCHANGED << args, stego, epattern, allBits, bitPos, ex, ey, xvars, counters >>
    /\ UNCHANGED aux

\* lines 27-34: capacity error
EmbedReject ==
    /\ epc = "call"
    /\ config.FractalParams # NilRef
    /\ EmbedTooSmall(cover.w, cover.h, data)
    /\ epc' = "ret"
    /\ eret' = [img |-> Nil, err |-> ErrSmall]
    /\ UNCHANGED << args, stego, epattern, allBits, bitPos, ex, ey, xvars, counters >>
    /\ UNCHANGED aux

\* lines 27-48: copy of the cover, pattern, bit stream
EmbedSetup ==
    /\ epc = "call"
    /\ config.FractalParams # NilRef
    /\ ~EmbedTooSmall(cover.w, cover.h, data)
    /\ stego' = [w |-> cover.w, h |-> cover.h,
                 pix |-> [k \in 1..(cover.w * cover.h) |-> cover.pix[k]]]
    /\ pixelReads' = pixelReads + cover.w * cover.h
    /\ pixelWrites' = pixelWrites + cover.w * cover.h
    /\ epattern' = generateFractalPattern(cover.w, cover.h, Deref(config.FractalParams))
    /\ patternCalls' = patternCalls + 1
    /\ allBits' = bytesToBits(PutUint32(Len(data))) \o bytesToBits(data)
    /\ bitPos' = 0
    /\ ex' = 0
    /\ ey' = 0
    /\ epc' = "loop"
    /\ UNCHANGED << args, eret, xvars >>
    /\ UNCHANGED aux

\* mutant: the bits are written in place, stego shares the cover's pixels
EmbedPixelInPlace ==
    /\ epc = "loop"
    /\ ey < stego.h /\ bitPos < Len(allBits)
    /\ ex < stego.w
    /\ IF epattern[ey * stego.w + ex + 1]
       THEN LET c == RGBAAt(stego, ex, ey)
                out == SetRGBA(stego, ex, ey,
                               [c EXCEPT !.B = WithLSB(c.B, allBits[bitPos + 1])])
            IN /\ stego' = out
               /\ cover' = out
               /\ bitPos' = bitPos + 1
               /\ pixelReads' = pixelReads + 1
               /\ pixelWrites' = pixelWrites + 1
       ELSE UNCHANGED << cover, stego, bitPos, pixelReads, pixelWrites >>
    /\ ex' = ex + 1
    /\ UNCHANGED << data, config, epc, epattern, allBits, ey, eret, xvars, patternCalls >>
    /\ UNCHANGED aux

\* lines 50-57: one pass of the inner loop body
EmbedPixel ==
    /\ epc = "loop"
    /\ ey < stego.h /\ bitPos < Len(allBits)
    /\ ex < stego.w
    /\ IF epattern[ey * stego.w + ex + 1]
       THEN LET c == RGBAAt(stego, ex, ey)
            IN /\ stego' = SetRGBA(stego, ex, ey,
                                   [c EXCEPT !.B = WithLSB(c.B, allBits[bitPos + 1])])
               /\ bitPos' = bitPos + 1
               /\ pixelReads' = pixelReads + 1
               /\ pixelWrites' = pixelWrites + 1
       ELSE UNCHANGED << stego, bitPos, pixelReads, pixelWrites >>
    /\ ex' = ex + 1
    /\ UNCHANGED << args, epc, epattern, allBits, ey, eret, xvars, patternCalls >>
    /\ UNCHANGED aux

\* line 49: next row
EmbedRow ==
    /\ epc = "loop"
    /\ ey < stego.h /\ bitPos < Len(allBits)
    /\ ex >= stego.w
    /\ ey' = ey + 1
    /\ ex' = 0
    /\ UNCHANGED << args, epc, stego, epattern, allBits, bitPos, eret, xvars, counters >>
    /\ UNCHANGED aux

\* line 60
EmbedReturn ==
    /\ epc = "loop"
    /\ ~(ey < stego.h /\ bitPos < Len(allBits))
    /\ epc' = "ret"
    /\ eret' = [img |-> "stego", err |-> Nil]
    /\ UNCHANGED << args, stego, epattern, allBits, bitPos, ex, ey, xvars, counters >>
    /\ UNCHANGED aux

(***************************************************************************)
(* FractalStego.Extract                                                    *)
(***************************************************************************)
\* the image object a reference names
ImageOf(ref) == IF ref = "cover" THEN cover ELSE stego

\* mutant: a zero length is accepted
InvalidLengthNoZero(length, width, height) ==
    U32Greater(length, width * height)

\* mutant: 33 carrier positions are skipped
SkipHeader33(skipped, carrier) == skipped <= 32 /\ carrier

\* mutant: only 31 carrier positions are skipped
SkipHeader31(skipped, carrier) == skipped < 31 /\ carrier

\* line 104: the pixel is one of the first 32 pattern pixels
SkipHeader(skipped, carrier) == skipped < 32 /\ carrier

\* line 92: the decoded length is rejected
InvalidLength(length, width, height) ==
    U32IsZero(length) \/ U32Greater(length, width * height)

\* Extract is called once Embed has returned, on Embed's image or on the cover
\* lines 63-66: missing parameters
ExtractNoParams ==
    /\ epc = "ret" /\ xpc = "idle"
    /\ config.FractalParams = NilRef
    /\ \E src \in {"cover", "stego"} :
          /\ src = "stego" => eret.img = "stego"
          /\ xsrc' = src
    /\ xpc' = "ret"
    /\ xret' = [bytes |-> NilRef, err |-> ErrParams]
    /\ UNCHANGED << args, evars, xpattern, lengthBytes, extractedBits, dataBits,
                    skippedTimes, xx, xy, counters >>
    /\ UNCHANGED aux

\* lines 68-78: pattern and header buffers
ExtractSetup ==
    /\ epc = "ret" /\ xpc = "idle"
    /\ config.FractalParams # NilRef
    /\ \E src \in {"cover", "stego"} :
          /\ src = "stego" => eret.img = "stego"
          /\ xsrc' = src
          /\ xpattern' = generateFractalPattern(ImageOf(src).w, ImageOf(src).h,
                                                Deref(config.FractalParams))
    /\ patternCalls' = patternCalls + 1
    /\ lengthBytes' = << 0, 0, 0, 0 >>
    /\ extractedBits' = 0
    /\ xx' = 0
    /\ xy' = 0
    /\ xpc' = "header"
    /\ UNCHANGED << args, evars, dataBits, skippedTimes, xret, pixelReads, pixelWrites >>
    /\ UNCHANGED aux

\* lines 80-88: one pass of the inner loop body of the header scan
HeaderPixel ==
    /\ xpc = "header"
    /\ xy < ImageOf(xsrc).h /\ extractedBits < 32
    /\ xx < ImageOf(xsrc).w
    /\ IF xpattern[xy * ImageOf(xsrc).w + xx + 1]
       THEN LET c == RGBAAt(ImageOf(xsrc), xx, xy)
                bytePos == extractedBits \div 8
                bitIdx == 7 - (extractedBits % 8)
            IN /\ lengthBytes' = [lengthBytes EXCEPT
                                    ![bytePos + 1] = OrBit(@, bitIdx, c.B % 2)]
               /\ extractedBits' = extractedBits + 1
               /\ pixelReads' = pixelReads + 1
       ELSE UNCHANGED << lengthBytes, extractedBits, pixelReads >>
    /\ xx' = xx + 1
    /\ UNCHANGED << args, evars, xpc, xsrc, xpattern, dataBits, skippedTimes, xy,
                    xret, patternCalls, pixelWrites >>
    /\ UNCHANGED aux

\* line 79: next row of the header scan
HeaderRow ==
    /\ xpc = "header"
    /\ xy < ImageOf(xsrc).h /\ extractedBits < 32
    /\ xx >= ImageOf(xsrc).w
    /\ xy' = xy + 1
    /\ xx' = 0
    /\ UNCHANGED << args, evars, xpc, xsrc, xpattern, lengthBytes, extractedBits,
                    dataBits, skippedTimes, xret, counters >>
    /\ UNCHANGED aux

\* lines 91-94: the decoded length is invalid
HeaderInvalid ==
    /\ xpc = "header"
    /\ ~(xy < ImageOf(xsrc).h /\ extractedBits < 32)
    /\ InvalidLength(Uint32(lengthBytes), ImageOf(xsrc).w, ImageOf(xsrc).h)
    /\ xpc' = "ret"
    /\ xret' = [bytes |-> NilRef, err |-> ErrLength]
    /\ UNCHANGED << args, evars, xsrc, xpattern, lengthBytes, extractedBits,
                    dataBits, skippedTimes, xx, xy, counters >>
    /\ UNCHANGED aux

\* lines 91-100: the decoded length is accepted, buffers of the data scan
HeaderDone ==
    /\ xpc = "header"
    /\ ~(xy < ImageOf(xsrc).h /\ extractedBits < 32)
    /\ ~InvalidLength(Uint32(lengthBytes), ImageOf(xsrc).w, ImageOf(xsrc).h)
    /\ dataBits' = [k \in 1..(U32Value(Uint32(lengthBytes)) * 8) |-> 0]
    /\ extractedBits' = 0
    /\ skippedTimes' = 0
    /\ xx' = 0
    /\ xy' = 0
    /\ xpc' = "data"
    /\ UNCHANGED << args, evars, xsrc, xpattern, lengthBytes, xret, counters >>
    /\ UNCHANGED aux

\* lines 102-113: one pass of the inner loop body of the data scan
DataPixel ==
    /\ xpc = "data"
    /\ xy < ImageOf(xsrc).h /\ extractedBits < Len(dataBits)
    /\ xx < ImageOf(xsrc).w
    /\ LET pixelIndex == xy * ImageOf(xsrc).w + xx
       IN IF SkipHeader(skippedTimes, xpattern[pixelIndex + 1])
          THEN /\ skippedTimes' = skippedTimes + 1
               /\ UNCHANGED << dataBits, extractedBits, pixelReads >>
          ELSE IF xpattern[pixelIndex + 1]
          THEN LET c == RGBAAt(ImageOf(xsrc), xx, xy)
               IN /\ dataBits' = [dataBits EXCEPT ![extractedBits + 1] = c.B % 2]
                  /\ extractedBits' = extractedBits + 1
                  /\ pixelReads' = pixelReads + 1
                  /\ UNCHANGED skippedTimes
          ELSE UNCHANGED << skippedTimes, dataBits, extractedBits, pixelReads >>
    /\ xx' = xx + 1
    /\ UNCHANGED << args, evars, xpc, xsrc, xpattern, lengthBytes, xy, xret,
                    patternCalls, pixelWrites >>
    /\ UNCHANGED aux

\* line 101: next row of the data scan
DataRow ==
    /\ xpc = "data"
    /\ xy < ImageOf(xsrc).h /\ extractedBits < Len(dataBits)
    /\ xx >= ImageOf(xsrc).w
    /\ xy' = xy + 1
    /\ xx' = 0
    /\ UNCHANGED << args, evars, xpc, xsrc, xpattern, lengthBytes, extractedBits,
                    dataBits, skippedTimes, xret, counters >>
    /\ UNCHANGED aux

\* line 117
ExtractReturn ==
    /\ xpc = "data"
    /\ ~(xy < ImageOf(xsrc).h /\ extractedBits < Len(dataBits))
    /\ xpc' = "ret"
    /\ xret' = [bytes |-> Ref(bitsToBytes(dataBits)), err |-> Nil]
    /\ UNCHANGED << args, evars, xsrc, xpattern, lengthBytes, extractedBits,
                    dataBits, skippedTimes, xx, xy, counters >>
    /\ UNCHANGED aux

Next ==
    \/ EmbedNoParams
    \/ EmbedReject
    \/ EmbedSetup
    \/ EmbedPixel
    \/ EmbedRow
    \/ EmbedReturn
    \/ ExtractNoParams
    \/ ExtractSetup
    \/ HeaderPixel
    \/ HeaderRow
    \/ HeaderInvalid
    \/ HeaderDone
    \/ DataPixel
    \/ DataRow
    \/ ExtractReturn

Spec == Init /\ [][Next]_vars

(***************************************************************************)
(* Concurrent calls on one FractalStego value: Extract is called on the    *)
(* cover while Embed is called on the same cover, and their steps          *)
(* interleave (the tests run in parallel on NewFractalStego values; the    *)
(* struct has no fields).                                                  *)
(***************************************************************************)
ConcDimChoices == {<<8, 4>>, <<8, 6>>}
ConcParamChoices ==
    [Type : {"Mandelbrot", "Julia"}, Iterations : {0, 1}, Threshold : ThresholdChoices]

InitConc ==
    /\ cover \in {MakeCover(d, k) : d \in ConcDimChoices, k \in CoverKinds}
    /\ data \in Payloads
    /\ config \in [FractalParams : {NilRef} \cup {Ref(p) : p \in ConcParamChoices}]
    /\ epc = "call"
    /\ stego = NoImage
    /\ epattern = << >>
    /\ allBits = << >>
    /\ bitPos = 0
    /\ ex = 0
    /\ ey = 0
    /\ eret = [img |-> Nil, err |-> Nil]
    /\ xpc = "idle"
    /\ xsrc = Nil
    /\ xpattern = << >>
    /\ lengthBytes = << >>
    /\ extractedBits = 0
    /\ dataBits = << >>
    /\ skippedTimes = 0
    /\ xx = 0
    /\ xy = 0
    /\ xret = [bytes |-> NilRef, err |-> Nil]
    /\ patternCalls = 0
    /\ pixelReads = 0
    /\ pixelWrites = 0
    /\ AuxOff

\* lines 63-66, called on the cover at any time
ConcExtractNoParams ==
    /\ xpc = "idle"
    /\ config.FractalParams = NilRef
    /\ xsrc' = "cover"
    /\ xpc' = "ret"
    /\ xret' = [bytes |-> NilRef, err |-> ErrParams]
    /\ UNCHANGED << args, evars, xpattern, lengthBytes, extractedBits, dataBits,
                    skippedTimes, xx, xy, counters, aux >>

\* lines 68-78, called on the cover at any time
ConcExtractSetup ==
    /\ xpc = "idle"
    /\ config.FractalParams # NilRef
    /\ xsrc' = "cover"
    /\ xpattern' = generateFractalPattern(cover.w, cover.h, Deref(config.FractalParams))
    /\ patternCalls' = patternCalls + 1
    /\ lengthBytes' = << 0, 0, 0, 0 >>
    /\ extractedBits' = 0
    /\ xx' = 0
    /\ xy' = 0
    /\ xpc' = "header"
    /\ UNCHANGED << args, evars, dataBits, skippedTimes, xret, pixelReads,
                    pixelWrites, aux >>

NextConc ==
    \/ EmbedNoParams
    \/ EmbedReject
    \/ EmbedSetup
    \/ EmbedPixel
    \/ EmbedRow
    \/ EmbedReturn
    \/ ConcExtractNoParams
    \/ ConcExtractSetup
    \/ HeaderPixel
    \/ HeaderRow
    \/ HeaderInvalid
    \/ HeaderDone
    \/ DataPixel
    \/ DataRow
    \/ ExtractReturn

SpecConc == InitConc /\ [][NextConc]_vars

(***************************************************************************)
(* Embed called a second time, on the image its first call returned, with  *)
(* the same payload and config.                                            *)
(***************************************************************************)
\* the caller passes the returned image back as the cover: lines 22-29
EmbedAgain ==
    /\ epc = "ret"
    /\ eret.err = Nil
    /\ round = 1
    /\ round' = 2
    /\ cover' = stego
    /\ epc' = "call"
    /\ stego' = NoImage
    /\ epattern' = << >>
    /\ allBits' = << >>
    /\ bitPos' = 0
    /\ ex' = 0
    /\ ey' = 0
    /\ eret' = [img |-> Nil, err |-> Nil]
    /\ UNCHANGED << data, config, xvars, counters, cpc, cdata, cbits, cbytes, apc,
                    selected, factoryRet, form >>

NextTwice ==
    \/ EmbedNoParams
    \/ EmbedReject
    \/ EmbedSetup
    \/ EmbedPixel
    \/ EmbedRow
    \/ EmbedReturn
    \/ EmbedAgain

SpecTwice == Init /\ [][NextTwice]_vars

(***************************************************************************)
(* The front end (main.go) and stego.Factory.  Go compares strings byte by *)
(* byte; a name is modelled as the sequence of its Unicode code points,    *)
(* which is equal exactly when the UTF-8 bytes are.                        *)
(***************************************************************************)
\* "Фрактал", main.go line 25
AlgorithmFractal == << 1060, 1088, 1072, 1082, 1090, 1072, 1083 >>
\* "Fractal", the only case of Factory's switch
FractalCase == << 70, 114, 97, 99, 116, 97, 108 >>
\* "fractal"
LowerFractal == << 102, 114, 97, 99, 116, 97, 108 >>
\* "Мандельброт" and "Жулиа", the options of the fractalType select
FractalTypeOptions ==
    { << 1052, 1072, 1085, 1076, 1077, 1083, 1100, 1073, 1088, 1086, 1090 >>,
      << 1046, 1091, 1083, 1080, 1072 >> }
\* the radio group holds its one option, or nothing after it was deselected
RadioValues == {AlgorithmFractal, << >>}
\* names a caller of the package may pass to Factory
NameChoices == {FractalCase, AlgorithmFractal, LowerFractal, << >>}

ErrUnknown == "unknown steganography algorithm"

\* factory.go lines 8-15
Factory(algorithmName) ==
    IF algorithmName = FractalCase
    THEN [alg |-> "FractalStego", err |-> Nil]
    ELSE [alg |-> Nil, err |-> ErrUnknown]

\* main.go lines 327-351 and 400-424: the Config the handler builds
FormConfig ==
    IF selected = AlgorithmFractal
    THEN [FractalParams |-> Ref([Type |-> form.fractalType,
                                 Iterations |-> form.fractalIterations,
                                 Threshold |-> form.fractalThreshold])]
    ELSE [FractalParams |-> NilRef]

InitApp ==
    /\ cover \in {MakeCover(d, k) : d \in DimChoices, k \in CoverKinds}
    /\ data \in Payloads
    /\ config = [FractalParams |-> NilRef]
    /\ epc = "off"
    /\ stego = NoImage
    /\ epattern = << >>
    /\ allBits = << >>
    /\ bitPos = 0
    /\ ex = 0
    /\ ey = 0
    /\ eret = [img |-> Nil, err |-> Nil]
    /\ xpc = "off"
    /\ xsrc = Nil
    /\ xpattern = << >>
    /\ lengthBytes = << >>
    /\ extractedBits = 0
    /\ dataBits = << >>
    /\ skippedTimes = 0
    /\ xx = 0
    /\ xy = 0
    /\ xret = [bytes |-> NilRef, err |-> Nil]
    /\ patternCalls = 0
    /\ pixelReads = 0
    /\ pixelWrites = 0
    /\ round = 1
    /\ cpc = "off"
    /\ cdata = << >>
    /\ cbits = << >>
    /\ cbytes = << >>
    /\ factoryRet = [alg |-> Nil, err |-> Nil]
    /\ \/ /\ apc \in {"embedData", "extractData"}
          /\ selected \in RadioValues
          /\ form \in [fractalType : FractalTypeOptions,
                        fractalIterations : IterationChoices,
                        fractalThreshold : ThresholdChoices,
                        usable : BOOLEAN]
       \/ /\ apc = "Factory"
          /\ selected \in NameChoices
          /\ form = FormOff

\* main.go lines 296-365: the handler of the embed button, up to the call of
\* Embed; an unusable form, file or number shows an error and returns
AppEmbedData ==
    /\ apc = "embedData"
    /\ IF ~form.usable
       THEN /\ apc' = "error"
            /\ UNCHANGED << config, factoryRet >>
       ELSE /\ config' = FormConfig
            /\ factoryRet' = Factory(selected)
            /\ apc' = IF factoryRet'.err # Nil THEN "error" ELSE "Embed"
    /\ UNCHANGED << cover, data, evars, xvars, counters, round, cpc, cdata, cbits,
                    cbytes, selected, form >>

\* main.go lines 377-438: the handler of the extract button, up to the call
\* of Extract
AppExtractData ==
    /\ apc = "extractData"
    /\ IF ~form.usable
       THEN /\ apc' = "error"
            /\ UNCHANGED << config, factoryRet >>
       ELSE /\ config' = FormConfig
            /\ factoryRet' = Factory(selected)
            /\ apc' = IF factoryRet'.err # Nil THEN "error" ELSE "Extract"
    /\ UNCHANGED << cover, data, evars, xvars, counters, round, cpc, cdata, cbits,
                    cbytes, selected, form >>

\* factory.go lines 8-15, called with any name
FactoryCall ==
    /\ apc = "Factory"
    /\ factoryRet' = Factory(selected)
    /\ apc' = "returned"
    /\ UNCHANGED << args, evars, xvars, counters, round, cpc, cdata, cbits,
                    cbytes, selected, form >>

NextApp ==
    \/ AppEmbedData
    \/ AppExtractData
    \/ FactoryCall

SpecApp == InitApp /\ [][NextApp]_vars

(***************************************************************************)
(* The bit codec on its own: bytesToBits and bitsToBytes applied to inputs *)
(* of any length                                                           *)
(***************************************************************************)
\* no Embed or Extract call is made
CallsOff ==
    /\ cover = NoImage
    /\ data = << >>
    /\ config = [FractalParams |-> NilRef]
    /\ epc = "off"
    /\ stego = NoImage
    /\ epattern = << >>
    /\ allBits = << >>
    /\ bitPos = 0
    /\ ex = 0
    /\ ey = 0
    /\ eret = [img |-> Nil, err |-> Nil]
    /\ xpc = "off"
    /\ xsrc = Nil
    /\ xpattern = << >>
    /\ lengthBytes = << >>
    /\ extractedBits = 0
    /\ dataBits = << >>
    /\ skippedTimes = 0
    /\ xx = 0
    /\ xy = 0
    /\ xret = [bytes |-> NilRef, err |-> Nil]
    /\ patternCalls = 0
    /\ pixelReads = 0
    /\ pixelWrites = 0

InitCodec ==
    /\ CallsOff
    /\ round = 1
    /\ apc = "off"
    /\ selected = << >>
    /\ factoryRet = [alg |-> Nil, err |-> Nil]
    /\ form = FormOff
    /\ cbytes = << >>
    /\ \/ /\ cpc = "input"
          /\ cdata \in SeqsUpTo(CodecByteChoices, MaxCodecBytes)
          /\ cbits = << >>
       \/ /\ cpc = "bits"
          /\ cdata = << >>
          /\ cbits \in SeqsUpTo({0, 1}, MaxCodecBits)

\* bits := bytesToBits(data)
CodecEncode ==
    /\ cpc = "input"
    /\ cbits' = bytesToBits(cdata)
    /\ cpc' = "encoded"
    /\ UNCHANGED << args, evars, xvars, counters, round, cdata, cbytes, apc,
                    selected, factoryRet, form >>

\* bytes := bitsToBytes(bits), of the bits bytesToBits returned or of given bits
CodecDecode ==
    /\ cpc \in {"encoded", "bits"}
    /\ cbytes' = bitsToBytes(cbits)
    /\ cpc' = IF cpc = "encoded" THEN "decoded" ELSE "packed"
    /\ UNCHANGED << args, evars, xvars, counters, round, cdata, cbits, apc,
                    selected, factoryRet, form >>

NextCodec == CodecEncode \/ CodecDecode

SpecCodec == InitCodec /\ [][NextCodec]_vars

(***************************************************************************)
(* Vocabulary of the properties                                            *)
(***************************************************************************)
HasParams == config.FractalParams # NilRef
Params == Deref(config.FractalParams)

\* the mask generated for the cover's width, height and params
Mask == generateFractalPattern(cover.w, cover.h, Params)

\* the 1-based row-major indexes of the true entries of a mask, in scan order
Carriers(p) == SelectSeq([k \in 1..Len(p) |-> k], LAMBDA k : p[k])

carrierCount(p) == Len(Carriers(p))

RequiredBits == 32 + 8 * Len(data)

Fits == HasParams /\ RequiredBits <= carrierCount(Mask)

Min(a, b) == IF a < b THEN a ELSE b

\* bit k of the stream: 32-bit big-endian len(payload), then the payload
\* bytes, each most-significant bit first (len(payload) < 2^31: bit 0 is 0)
StreamBit(k) ==
    IF k = 0 THEN 0
    ELSE IF k < 32 THEN (Len(data) \div Pow2(31 - k)) % 2
    ELSE (data[((k - 32) \div 8) + 1] \div Pow2(7 - ((k - 32) % 8))) % 2

\* blue least-significant bit of the k-th (0-based) pixel of the carrier list
\* cs of img, 0 when the list has no such pixel
CarrierBit(img, cs, k) ==
    IF k < Len(cs) THEN img.pix[cs[k + 1]].B % 2 ELSE 0

\* the big-endian value of carrier bits from..to (0-based, inclusive)
RECURSIVE BitsValue(_, _, _, _)
BitsValue(img, cs, from, to) ==
    IF from > to THEN 0
    ELSE CarrierBit(img, cs, from) * Pow2(to - from) + BitsValue(img, cs, from + 1, to)

EmbedOK == epc = "ret" /\ eret.img = "stego" /\ eret.err = Nil

(***************************************************************************)
(* C1  Round trip.  As claimed: whenever 32 + 8*len(payload) is at most    *)
(* the number of true entries of the mask, Embed succeeds and Extract of   *)
(* Embed's output with the same params returns exactly the payload, the    *)
(* empty payload included.                                                 *)
(***************************************************************************)
C1_RoundTripAnyPayload ==
    (epc = "ret" /\ xpc \in {"idle", "ret"} /\ Fits) =>
        /\ EmbedOK
        /\ (xpc = "ret" /\ xsrc = "stego") => xret = [bytes |-> Ref(data), err |-> Nil]

(***************************************************************************)
(* C1 (amended)  Round trip for non-empty payloads: whenever               *)
(* 32 + 8*len(payload) is at most the number of true entries of the mask,  *)
(* Embed succeeds, and if the payload is not empty Extract of Embed's      *)
(* output with the same params succeeds and returns exactly the payload.   *)
(***************************************************************************)
C1_RoundTrip ==
    (epc = "ret" /\ xpc \in {"idle", "ret"} /\ Fits) =>
        /\ EmbedOK
        /\ (xpc = "ret" /\ xsrc = "stego" /\ data # << >>)
               => xret = [bytes |-> Ref(data), err |-> Nil]

\* a non-empty payload came back from a mask that is a proper subset of the pixels
C1_Witness ==
    /\ xpc = "ret" /\ xsrc = "stego"
    /\ xret = [bytes |-> Ref(data), err |-> Nil]
    /\ data # << >>
    /\ Fits
    /\ carrierCount(Mask) < cover.w * cover.h

(***************************************************************************)
(* C2  Capacity rejection: whenever 32 + 8*len(payload) exceeds the        *)
(* number of true entries of the mask, Embed returns an error and no       *)
(* image.                                                                  *)
(***************************************************************************)
C2_CapacityRejection ==
    (epc = "ret" /\ HasParams /\ RequiredBits > carrierCount(Mask))
        => (eret.img = Nil /\ eret.err = ErrSmall)

(***************************************************************************)
(* C3  Channel isolation: in the image a successful Embed returns, every   *)
(* pixel has the cover's red, green, alpha and upper 7 bits of blue, and   *)
(* its blue least-significant bit differs from the cover's only at a       *)
(* mask-true position that received a stream bit.                          *)
(***************************************************************************)
C3_ChannelIsolation ==
    EmbedOK =>
        LET cs == Carriers(Mask)
            fed == {cs[i] : i \in 1..Min(Len(cs), RequiredBits)}
        IN \A k \in 1..(cover.w * cover.h) :
              /\ stego.pix[k].R = cover.pix[k].R
              /\ stego.pix[k].G = cover.pix[k].G
              /\ stego.pix[k].A = cover.pix[k].A
              /\ stego.pix[k].B \div 2 = cover.pix[k].B \div 2
              /\ stego.pix[k].B # cover.pix[k].B => k \in fed

\* an image came back with a changed blue bit, an untouched non-carrier pixel
\* and an untouched carrier pixel behind the end of the stream
C3_Witness ==
    /\ EmbedOK
    /\ stego.pix # cover.pix
    /\ LET cs == Carriers(Mask)
       IN /\ Len(cs) < cover.w * cover.h
          /\ Len(cs) > RequiredBits
          /\ cover.pix[cs[Len(cs)]].B % 2 = 1

(***************************************************************************)
(* C4  Wire format ordering: after a successful Embed, for every k below   *)
(* min(carrierCount, 32 + 8*len(payload)) the blue least-significant bit   *)
(* of the k-th mask-true pixel in row-major order is bit k of the stream.  *)
(***************************************************************************)
C4_WireFormat ==
    EmbedOK =>
        LET cs == Carriers(Mask)
        IN \A k \in 0..(Min(Len(cs), RequiredBits) - 1) :
              CarrierBit(stego, cs, k) = StreamBit(k)

\* a payload byte with asymmetric bits was written through a mask that is a
\* proper subset of the pixels
C4_Witness ==
    /\ EmbedOK
    /\ data = << 164 >>
    /\ carrierCount(Mask) < cover.w * cover.h
    /\ carrierCount(Mask) >= RequiredBits

(***************************************************************************)
(* C5  Missing parameters: with Config.FractalParams nil, Embed and        *)
(* Extract each return an error and a nil result, and no mask is generated *)
(* and no pixel is read or written.                                        *)
(***************************************************************************)
C5_MissingParameters ==
    ~HasParams =>
        /\ patternCalls = 0 /\ pixelReads = 0 /\ pixelWrites = 0
        /\ stego = NoImage
        /\ epc \in {"call", "ret"}
        /\ xpc \in {"idle", "ret"}
        /\ epc = "ret" => (eret.img = Nil /\ eret.err = ErrParams)
        /\ xpc = "ret" => (xret.bytes = NilRef /\ xret.err = ErrParams)

\* both calls have returned without parameters
C5_Witness == ~HasParams /\ epc = "ret" /\ xpc = "ret" /\ xret.err = ErrParams

(***************************************************************************)
(* C6  Truncated extraction: if the mask has fewer true positions than the *)
(* 32 header bits plus 8 times the decoded length, Extract returns an      *)
(* error and no bytes.                                                     *)
(***************************************************************************)
C6_TruncatedExtraction ==
    (xpc = "ret" /\ HasParams) =>
        LET length == Uint32(lengthBytes)
            short == IF InvalidLength(length, cover.w, cover.h)
                     THEN carrierCount(xpattern) < 32
                     ELSE carrierCount(xpattern) < 32 + 8 * U32Value(length)
        IN short => (xret.err # Nil /\ xret.bytes = NilRef)

(***************************************************************************)
(* C7  Invalid length: Extract returns the invalid-length error and no     *)
(* bytes exactly when the 32-bit big-endian value of the blue              *)
(* least-significant bits of the first 32 mask-true positions (missing     *)
(* positions counting 0) is 0 or greater than width*height.                *)
(***************************************************************************)
C7_InvalidLength ==
    (xpc = "ret" /\ HasParams) =>
        LET img == ImageOf(xsrc)
            cs == Carriers(Mask)
            hi == BitsValue(img, cs, 0, 15)
            lo == BitsValue(img, cs, 16, 31)
            bad == \/ hi = 0 /\ lo = 0
                   \/ hi > (img.w * img.h) \div 65536
                   \/ hi = (img.w * img.h) \div 65536 /\ lo > (img.w * img.h) % 65536
        IN /\ bad <=> xret.err = ErrLength
           /\ bad => xret.bytes = NilRef

\* Extract rejected a header of fewer than 32 bits that decodes to more than
\* width*height
C7_Witness ==
    /\ xpc = "ret" /\ HasParams
    /\ xret.err = ErrLength
    /\ carrierCount(Mask) < 32
    /\ BitsValue(ImageOf(xsrc), Carriers(Mask), 0, 15) > 0

(***************************************************************************)
(* C8  Embed returns a new pixel grid with the cover's width and height    *)
(* and never modifies a pixel of the cover; Extract never modifies a pixel *)
(* of the image it is given.                                               *)
(***************************************************************************)
C8_NoMutation ==
    /\ [](EmbedOK => /\ eret.img # "cover"
                     /\ stego.w = cover.w /\ stego.h = cover.h
                     /\ Len(stego.pix) = cover.w * cover.h)
    /\ [][cover' = cover]_vars
    /\ [][xpc' # "idle" => (cover' = cover /\ stego' = stego)]_vars

\* Embed has changed a pixel of its output and Extract has read it to the end
C8_Witness ==
    /\ EmbedOK
    /\ stego.pix # cover.pix
    /\ xpc = "ret" /\ xret.err = Nil

(***************************************************************************)
(* C10  Degenerate iterations: with iterations = 0 the generated mask has  *)
(* width*height entries and every entry is true.                           *)
(***************************************************************************)
C10_DegenerateIterations ==
    (HasParams /\ Params.Iterations = 0) =>
        /\ epc = "loop" => /\ Len(epattern) = cover.w * cover.h
                           /\ \A k \in 1..Len(epattern) : epattern[k]
        /\ xpc = "header" => /\ Len(xpattern) = cover.w * cover.h
                             /\ \A k \in 1..Len(xpattern) : xpattern[k]

\* a mask was generated with iterations = 0 and a threshold the first
\* iteration would exceed
C10_Witness ==
    /\ HasParams /\ Params.Iterations = 0 /\ Params.Threshold = << 1, 2 >>
    /\ epc = "loop" /\ Len(epattern) = 64

(***************************************************************************)
(* C11  Bit codec round trip: bytesToBits(d) has 8*len(d) bits, each byte  *)
(* expanded most-significant bit first, and bitsToBytes(bytesToBits(d))    *)
(* is d; bitsToBytes of n bits returns ceil(n/8) bytes, packed             *)
(* most-significant bit first, the unused low bits of the last byte 0.     *)
(***************************************************************************)
C11_BitCodec ==
    /\ cpc \in {"encoded", "decoded"} =>
          /\ Len(cbits) = 8 * Len(cdata)
          /\ \A i \in 0..(Len(cdata) - 1) : \A j \in 0..7 :
                cbits[i * 8 + j + 1] = (cdata[i + 1] \div Pow2(7 - j)) % 2
    /\ cpc = "decoded" => cbytes = cdata
    /\ cpc = "packed" =>
          LET n == Len(cbits)
              bit(k) == IF k < n THEN cbits[k + 1] ELSE 0
          IN /\ Len(cbytes) = (n + 7) \div 8
             /\ \A m \in 0..(Len(cbytes) - 1) :
                   cbytes[m + 1] =
                       bit(8 * m) * 128 + bit(8 * m + 1) * 64 + bit(8 * m + 2) * 32
                       + bit(8 * m + 3) * 16 + bit(8 * m + 4) * 8 + bit(8 * m + 5) * 4
                       + bit(8 * m + 6) * 2 + bit(8 * m + 7)
             /\ n % 8 # 0 => cbytes[Len(cbytes)] % Pow2(8 - (n % 8)) = 0

\* two bytes with asymmetric bits came back from their 16 bits
C11_Witness ==
    /\ cpc = "decoded"
    /\ cdata = << 164, 1 >>
    /\ Len(cbits) = 16
    /\ cbytes = << 164, 1 >>

\* nine bits, the last one set, were packed into two bytes
C11_WitnessPadding ==
    /\ cpc = "packed"
    /\ Len(cbits) = 9 /\ cbits[9] = 1
    /\ cbytes[2] = 128

(***************************************************************************)
(* C12  Extractor read order: when Extract succeeds with decoded length L  *)
(* and the mask has at least 32 + 8*L true entries, it returns L bytes and *)
(* bit i of them (most-significant bit first in each byte) is the blue     *)
(* least-significant bit of the (32 + i)-th mask-true pixel in row-major   *)
(* order.                                                                  *)
(***************************************************************************)
C12_ReadOrder ==
    (xpc = "ret" /\ HasParams /\ xret.err = Nil) =>
        LET img == ImageOf(xsrc)
            cs == Carriers(Mask)
            L == BitsValue(img, cs, 16, 31)
            bytes == Deref(xret.bytes)
        IN (BitsValue(img, cs, 0, 15) = 0 /\ Len(cs) >= 32 + 8 * L) =>
              /\ Len(bytes) = L
              /\ \A i \in 0..(8 * L - 1) :
                    (bytes[(i \div 8) + 1] \div Pow2(7 - (i % 8))) % 2
                        = CarrierBit(img, cs, 32 + i)

\* Extract read a byte with both bit values out of an image Embed never wrote
C12_Witness ==
    /\ xpc = "ret" /\ HasParams /\ xret.err = Nil
    /\ xsrc = "cover"
    /\ LET cs == Carriers(Mask)
           L == BitsValue(cover, cs, 16, 31)
       IN /\ L >= 1
          /\ Len(cs) >= 32 + 8 * L
          /\ Deref(xret.bytes)[1] \notin {0, 255}

(***************************************************************************)
(* C13  Variant fallback: with any Type other than "Julia", the empty      *)
(* string included, the generated mask is the mask of Type "Mandelbrot",   *)
(* and the Type causes no error.                                           *)
(***************************************************************************)
C13_VariantFallback ==
    (HasParams /\ Params.Type # "Julia") =>
        LET m == generateFractalPattern(cover.w, cover.h,
                                        [Params EXCEPT !.Type = "Mandelbrot"])
        IN /\ epc = "loop" => epattern = m
           /\ xpc = "header" => xpattern = m
           /\ (epc = "ret" /\ ~EmbedTooSmall(cover.w, cover.h, data)) => EmbedOK
           /\ xpc = "ret" => xret.err \in {Nil, ErrLength}

\* a mask was generated for an unrecognized Type where the Julia mask differs
C13_Witness ==
    /\ HasParams /\ Params.Type \in {"julia", ""} /\ Params.Iterations = 2
    /\ epc = "loop"
    /\ epattern # generateFractalPattern(cover.w, cover.h,
                                         [Params EXCEPT !.Type = "Julia"])

(***************************************************************************)
(* C15  Julia mask uniformity: with Type "Julia" all entries of the        *)
(* generated mask have the same value, so the mask is all true or all      *)
(* false.                                                                  *)
(***************************************************************************)
C15_JuliaUniform ==
    (HasParams /\ Params.Type = "Julia") =>
        /\ epc = "loop" => \A j, k \in 1..Len(epattern) : epattern[j] = epattern[k]
        /\ xpc = "header" => \A j, k \in 1..Len(xpattern) : xpattern[j] = xpattern[k]
        /\ epc = "loop" => carrierCount(epattern) \in {0, cover.w * cover.h}

\* a Julia mask that is all false was generated after two iterations
C15_Witness ==
    /\ HasParams /\ Params.Type = "Julia" /\ Params.Iterations = 2
    /\ epc = "loop"
    /\ Len(epattern) = 64
    /\ \A k \in 1..Len(epattern) : ~epattern[k]

\* a Julia mask that is all true was generated after two iterations
C15_WitnessAllTrue ==
    /\ HasParams /\ Params.Type = "Julia" /\ Params.Iterations = 2
    /\ epc = "loop"
    /\ Len(epattern) = 64
    /\ \A k \in 1..Len(epattern) : epattern[k]

(***************************************************************************)
(* What a call returns when it runs alone, as C2..C7 and C12 describe it   *)
(***************************************************************************)
\* Embed(c, data, cfg) alone: [ret, out]
EmbedAlone(c, cfg) ==
    IF cfg.FractalParams = NilRef
    THEN [ret |-> [img |-> Nil, err |-> ErrParams], out |-> NoImage]
    ELSE IF c.w * c.h < RequiredBits
    THEN [ret |-> [img |-> Nil, err |-> ErrSmall], out |-> NoImage]
    ELSE LET cs == Carriers(generateFractalPattern(c.w, c.h, Deref(cfg.FractalParams)))
             n == Min(Len(cs), RequiredBits)
             at(k) == CHOOSE i \in 1..n : cs[i] = k
         IN [ret |-> [img |-> "stego", err |-> Nil],
             out |-> [w |-> c.w, h |-> c.h,
                      pix |-> [k \in 1..(c.w * c.h) |->
                                 IF \E i \in 1..n : cs[i] = k
                                 THEN [c.pix[k] EXCEPT
                                         !.B = (@ - (@ % 2)) + StreamBit(at(k) - 1)]
                                 ELSE c.pix[k]]]]

\* Extract(img, cfg) alone
ExtractAlone(img, cfg) ==
    IF cfg.FractalParams = NilRef
    THEN [bytes |-> NilRef, err |-> ErrParams]
    ELSE LET cs == Carriers(generateFractalPattern(img.w, img.h, Deref(cfg.FractalParams)))
             hi == BitsValue(img, cs, 0, 15)
             lo == BitsValue(img, cs, 16, 31)
         IN IF (hi = 0 /\ lo = 0) \/ hi > 0 \/ lo > img.w * img.h
            THEN [bytes |-> NilRef, err |-> ErrLength]
            ELSE [bytes |-> Ref([m \in 1..lo |->
                                   BitsValue(img, cs, 32 + 8 * (m - 1), 39 + 8 * (m - 1))]),
                  err |-> Nil]

\* every call of the sequential specification returns what it returns alone
AloneResults ==
    /\ (epc = "ret" /\ xpc = "idle") =>
          LET e == EmbedAlone(cover, config)
          IN eret = e.ret /\ (EmbedOK => stego = e.out)
    /\ xpc = "ret" => xret = ExtractAlone(ImageOf(xsrc), config)

(***************************************************************************)
(* C14  Call isolation under concurrency: when Embed and Extract run       *)
(* concurrently on the same FractalStego value and the same cover, under   *)
(* every interleaving each call returns what it returns alone, and no step *)
(* changes the shared cover, payload or config.                            *)
(***************************************************************************)
C14_CallIsolation ==
    /\ []((epc = "ret" /\ xpc = "ret") =>
             LET e == EmbedAlone(cover, config)
             IN /\ eret = e.ret
                /\ EmbedOK => stego = e.out
                /\ xret = ExtractAlone(cover, config))
    /\ [][cover' = cover /\ data' = data /\ config' = config]_vars

\* Extract read the whole cover between two writes of Embed and returned bytes
C14_Witness ==
    /\ epc = "loop" /\ bitPos >= 1 /\ bitPos < Len(allBits)
    /\ stego.pix # cover.pix
    /\ xpc = "ret" /\ xsrc = "cover"
    /\ xret.err = Nil /\ Deref(xret.bytes) # << >>

(***************************************************************************)
(* C16  Embed idempotence: when Embed succeeds, embedding the same payload *)
(* with the same params into its output succeeds and returns an image      *)
(* equal pixel for pixel to that output (in round 2 the cover is the       *)
(* output of round 1).                                                     *)
(***************************************************************************)
C16_EmbedIdempotent ==
    (round = 2 /\ epc = "ret") =>
        /\ eret = [img |-> "stego", err |-> Nil]
        /\ stego = cover

\* the first call changed the cover it was given, the second call wrote the
\* payload's bits again and returned
C16_Witness ==
    /\ round = 2 /\ epc = "ret" /\ eret.err = Nil
    /\ data # << >>
    /\ cover \notin {MakeCover(d, k) : d \in DimChoices, k \in CoverKinds}
    /\ bitPos = RequiredBits
    /\ carrierCount(Mask) < cover.w * cover.h

(***************************************************************************)
(* C17  Algorithm dispatch: the name the front end passes to Factory in    *)
(* embedData and extractData, AlgorithmFractal, is resolved to the fractal *)
(* steganographer with a nil error, so a handler with a usable form        *)
(* reaches the Embed or Extract call; and Factory returns a nil            *)
(* Steganographer and an error for every name it does not recognize.       *)
(***************************************************************************)
C17_AlgorithmDispatch ==
    /\ (apc \in {"error", "Embed", "Extract"} /\ form.usable
            /\ selected = AlgorithmFractal) =>
          /\ factoryRet = [alg |-> "FractalStego", err |-> Nil]
          /\ apc \in {"Embed", "Extract"}
    /\ (apc \in {"returned", "error"} /\ factoryRet.err # Nil) =>
          factoryRet.alg = Nil

\* the half of C17 that the code does satisfy: a name Factory does not
\* recognize gives a nil Steganographer and an error, the name "Fractal"
\* gives the fractal steganographer
C17_FactoryTotal ==
    apc = "returned" =>
        IF selected = FractalCase
        THEN factoryRet = [alg |-> "FractalStego", err |-> Nil]
        ELSE factoryRet = [alg |-> Nil, err |-> ErrUnknown]

====
